---- MODULE Spec2Model ----
(***************************************************************************)
(* A model of mathinspector/console/console.py: the Console widget (a Tk   *)
(* text log bound to a code.InteractiveInterpreter), its namespace hooks,  *)
(* push / runscript / eval, write / showtraceback, clear and the           *)
(* error_file click handler.                                               *)
(*                                                                         *)
(* Text is a sequence of one-character strings.  Four multi-character      *)
(* tokens stand for literal substrings the regular expressions of the file *)
(* look for: TB, FILE, LN and INTOK below.                                    *)
(***************************************************************************)
EXTENDS Integers, Sequences, FiniteSets, TLC

VARIABLES locals, objects, modules, buffer, history, log, is_on_bottom,
          hover_range, sys, obs

vars == <<locals, objects, modules, buffer, history, log, is_on_bottom,
          hover_range, sys, obs>>

----------------------------------------------------------------------------
(* Bounds of the model *)

MaxHistory == 4
MaxBuffer == 3
MaxLog == 3
MaxArgs == 2
WidgetRows == 1

----------------------------------------------------------------------------
(* Text *)

NL == "\n"
TAB == "\t"
BEL == "BEL"
Q == "\""
TB == "Traceback (most recent call last)"
FILE == "File "
LN == "line 1"
INTOK == ", in "

Whitespace == {" ", NL, TAB}

Range(s) == {s[i] : i \in 1..Len(s)}

RECURSIVE StrJoin(_)
StrJoin(s) == IF s = <<>> THEN "" ELSE Head(s) \o StrJoin(Tail(s))

RECURSIVE Concat(_)
Concat(ss) == IF ss = <<>> THEN <<>> ELSE Head(ss) \o Concat(Tail(ss))

Min(a, b) == IF a < b THEN a ELSE b

(* s[:n] *)
Prefix(s, n) == SubSeq(s, 1, Min(n, Len(s)))

(* s.split("\n") *)
FirstNL(s) == CHOOSE k \in 1..Len(s) : s[k] = NL /\ \A j \in 1..(k - 1) : s[j] # NL

RECURSIVE SplitNL(_)
SplitNL(s) ==
    IF \A i \in 1..Len(s) : s[i] # NL THEN <<s>>
    ELSE <<SubSeq(s, 1, FirstNL(s) - 1)>> \o SplitNL(SubSeq(s, FirstNL(s) + 1, Len(s)))

(* s.rstrip() *)
RECURSIVE RStrip(_)
RStrip(s) == IF s # <<>> /\ s[Len(s)] \in Whitespace
             THEN RStrip(SubSeq(s, 1, Len(s) - 1)) ELSE s

----------------------------------------------------------------------------
(* The program state as one record, so that a handler is a function of it *)

NoObs == [op |-> "init", runs |-> <<>>, prompts |-> 0, raised |-> "none",
          exc |-> "none", events |-> <<>>, opened |-> <<>>, ran |-> <<>>,
          clears |-> <<>>, wrote |-> <<>>, args |-> <<>>, segs |-> <<>>,
          pushes |-> <<>>, script |-> <<>>, view |-> FALSE, result |-> <<>>,
          host |-> FALSE, removed |-> {}, gone |-> {}]

Cur == [locals |-> locals, objects |-> objects, modules |-> modules,
        buffer |-> buffer, history |-> history, log |-> log,
        is_on_bottom |-> is_on_bottom, hover_range |-> hover_range,
        sys |-> sys, obs |-> obs]

Becomes(st) ==
    /\ locals' = st.locals
    /\ objects' = st.objects
    /\ modules' = st.modules
    /\ buffer' = st.buffer
    /\ history' = st.history
    /\ log' = st.log
    /\ is_on_bottom' = st.is_on_bottom
    /\ hover_range' = st.hover_range
    /\ sys' = st.sys
    /\ obs' = st.obs

(* A handler starts: what the previous one was observed to do is forgotten. *)
(* host (the host has written a registry) and removed (the keys it took    *)
(* out since the last synclocals) are kept.                                *)
Begin(st, op) ==
    [st EXCEPT !.obs = [NoObs EXCEPT !.op = op, !.host = st.obs.host,
                                     !.removed = st.obs.removed]]

----------------------------------------------------------------------------
(* widget.Text and console.prompt.Prompt *)

LogText(lg) == [i \in 1..Len(lg) |-> lg[i].c]

Rows(lg) == Cardinality({i \in 1..Len(lg) : lg[i].c = NL})

(* the tag list Tk applies for a tags argument: a str names one tag, a    *)
(* tuple names each of its items                                          *)
Applied(tags) == IF tags.isStr THEN {StrJoin(tags.items)} ELSE Range(tags.items)

(* Text.insert("end", text, tags) *)
Insert(st, text, tags) ==
    [st EXCEPT !.log = @ \o [i \in 1..Len(text) |-> [c |-> text[i], tags |-> Applied(tags)]],
               !.obs.wrote = @ \o text]

(* Text.delete("1.0", "end") *)
Delete(st) == [st EXCEPT !.log = <<>>]

(* Prompt.__call__: the prompt is shown *)
PromptCall(st) == [st EXCEPT !.obs.prompts = @ + 1]

(* Prompt.move: the prompt sits at the bottom once the log fills the widget *)
PromptMove(st) ==
    IF Rows(st.log) > WidgetRows THEN [st EXCEPT !.is_on_bottom = TRUE] ELSE st

(* builtin_print: the interpreter's own print, on the original stdout *)
BuiltinPrint(st, text) ==
    [st EXCEPT !.obs.events = Append(@, [kind |-> "bell", dest |-> "orig", text |-> <<text>>])]

----------------------------------------------------------------------------
(* Console.clear and class Clear *)

(* the mutant: the text is not deleted *)
ConsoleClearKeepsText(st) ==
    [st EXCEPT !.is_on_bottom = FALSE,
               !.obs.clears = Append(@, [len |-> Len(st.log), bottom |-> st.is_on_bottom])]

ConsoleClear(st) ==
    Delete([st EXCEPT !.is_on_bottom = FALSE,
                      !.obs.clears = Append(@, [len |-> Len(st.log),
                                                bottom |-> st.is_on_bottom])])

ClearCall(st) == PromptCall(ConsoleClear(st))

(* Clear.__repr__ clears, shows the prompt and returns "" *)
ClearRepr(st) == PromptCall(ConsoleClear(st))

----------------------------------------------------------------------------
(* The regular expressions RE_FILEPATH, RE_INPUT, RE_LINE, RE_IN over a    *)
(* text t, as re.finditer finds them from position p on: each yields the   *)
(* span <<first, last>> of its group 2.  "." does not match a newline and  *)
(* ".*" is greedy.                                                         *)

SameLine(t, a, b) == \A k \in a..b : t[k] # NL

(* the last position of the line that holds position a *)
LineEnd(t, a) ==
    IF \E k \in a..Len(t) : t[k] = NL
    THEN (CHOOSE k \in a..Len(t) : t[k] = NL /\ SameLine(t, a, k - 1)) - 1
    ELSE Len(t)

\* RE_FILEPATH: File, then group 2: a quote not followed by <, any text, a quote
FilepathAt(t, i) ==
    /\ i + 2 <= Len(t)
    /\ t[i] = FILE /\ t[i + 1] = Q /\ t[i + 2] # "<"
    /\ \E j \in (i + 2)..LineEnd(t, i + 2) : t[j] = Q

FilepathEnd(t, i) ==
    CHOOSE j \in (i + 2)..LineEnd(t, i + 2) :
        t[j] = Q /\ \A k \in (j + 1)..LineEnd(t, i + 2) : t[k] # Q

\* RE_INPUT: File, a quote, then group 2: <, any text, >, and then a quote
InputAt(t, i) ==
    /\ i + 4 <= Len(t)
    /\ t[i] = FILE /\ t[i + 1] = Q /\ t[i + 2] = "<"
    /\ \E k \in (i + 3)..(LineEnd(t, i + 2) - 1) : t[k] = ">" /\ t[k + 1] = Q

InputEnd(t, i) ==
    CHOOSE k \in (i + 3)..(LineEnd(t, i + 2) - 1) :
        /\ t[k] = ">" /\ t[k + 1] = Q
        /\ \A m \in (k + 1)..(LineEnd(t, i + 2) - 1) : ~(t[m] = ">" /\ t[m + 1] = Q)

RECURSIVE FilepathSpans(_, _)
FilepathSpans(t, p) ==
    IF p > Len(t) THEN <<>>
    ELSE IF FilepathAt(t, p)
         THEN <<<<p + 1, FilepathEnd(t, p)>>>> \o FilepathSpans(t, FilepathEnd(t, p) + 1)
         ELSE FilepathSpans(t, p + 1)

RECURSIVE InputSpans(_, _)
InputSpans(t, p) ==
    IF p > Len(t) THEN <<>>
    ELSE IF InputAt(t, p)
         THEN <<<<p + 2, InputEnd(t, p)>>>> \o InputSpans(t, InputEnd(t, p) + 2)
         ELSE InputSpans(t, p + 1)

\* RE_LINE: a parenthesised "line [0-9]*", group 2 the whole match
RECURSIVE LineSpans(_, _)
LineSpans(t, p) ==
    IF p > Len(t) THEN <<>>
    ELSE IF t[p] = LN THEN <<<<p, p>>>> \o LineSpans(t, p + 1)
         ELSE LineSpans(t, p + 1)

\* RE_IN: "line N, in " and then group 2, the rest of the line
RECURSIVE InSpans(_, _)
InSpans(t, p) ==
    IF p + 1 > Len(t) THEN <<>>
    ELSE IF t[p] = LN /\ t[p + 1] = INTOK
         THEN (IF p + 2 <= LineEnd(t, p + 1)
               THEN <<<<p + 2, LineEnd(t, p + 1)>>>> ELSE <<>>)
              \o InSpans(t, LineEnd(t, p + 1) + 1)
         ELSE InSpans(t, p + 1)

(* Text.highlight(regex, tag, idx): group 2 of every match gets the tag *)
Highlight(st, spans, tag) ==
    [st EXCEPT !.log =
        [i \in 1..Len(@) |->
            IF \E n \in 1..Len(spans) : spans[n][1] <= i /\ i <= spans[n][2]
            THEN [@[i] EXCEPT !.tags = @ \cup {tag}] ELSE @[i]]]

----------------------------------------------------------------------------
(* Console.write *)

NoTags == [isStr |-> FALSE, items |-> <<>>]
RedStr == [isStr |-> TRUE, items |-> <<"r", "e", "d">>]

None == [kind |-> "none", text |-> <<"N", "o", "n", "e">>]
Str(text) == [kind |-> "str", text |-> text]
Exc(text) == [kind |-> "exc", text |-> text]
ClearObj == [kind |-> "clear", text |-> <<>>]

(* str(r): for the Clear object this runs Clear.__repr__ *)
StrOf(st, r) == IF r.kind = "clear" THEN ClearRepr(st) ELSE st

(* re.match(RE_TRACEBACK, str(r)) *)
IsTraceback(text) == text # <<>> /\ text[1] = TB

(* the tags an argument is inserted with, given the tags left by the       *)
(* arguments before it                                                     *)
TagsFor(r, tags) ==
    LET t1 == IF IsTraceback(r.text)
              THEN [isStr |-> FALSE, items |-> <<"red">> \o tags.items]
              ELSE tags
    IN IF r.kind = "exc"
       THEN [isStr |-> FALSE, items |-> t1.items \o <<"red">>]
       ELSE t1

(* the tags the loop carries on to the next argument *)
TagsAfter(r, tags) ==
    IF r.kind = "none"
    THEN (IF IsTraceback(r.text)
          THEN [isStr |-> FALSE, items |-> <<"red">> \o tags.items] ELSE tags)
    ELSE TagsFor(r, tags)

(* what one argument was inserted as, for the record *)
Seg(st, r, tags) ==
    [st EXCEPT !.obs.segs = Append(@, [text |-> r.text, tags |-> Applied(tags)])]

(* builtin_print("\a") for an Exception *)
Bell(st, r) == IF r.kind = "exc" THEN BuiltinPrint(st, BEL) ELSE st

(* the tab after an argument when there are several *)
InsertTab(st, n) == IF n > 1 THEN Insert(st, <<TAB>>, NoTags) ELSE st

(* the body of "for r in args" for one r *)
WriteArg(st, r, tags, n) ==
    IF r.kind = "none" THEN StrOf(st, r)
    ELSE InsertTab(Seg(Insert(StrOf(Bell(StrOf(st, r), r), r), r.text, TagsFor(r, tags)),
                       r, TagsFor(r, tags)), n)

RECURSIVE WriteArgs(_, _, _, _)
WriteArgs(st, args, tags, n) ==
    IF args = <<>> THEN st
    ELSE WriteArgs(WriteArg(st, Head(args), tags, n), Tail(args),
                   TagsAfter(Head(args), tags), n)

(* the four highlight calls, from the insert index idx on *)
HighlightAll(st, t, idx) ==
    Highlight(Highlight(Highlight(Highlight(st, FilepathSpans(t, idx), "error_file"),
                                  InputSpans(t, idx), "purple"),
                        LineSpans(t, idx), "blue"),
              InSpans(t, idx), "green")

WriteHighlight(st, idx) == HighlightAll(st, LogText(st.log), Min(idx, Len(st.log) + 1))

(* the newline after what was written, when the log holds any text *)
WriteNewline(st) ==
    IF \E i \in 1..Len(st.log) : st.log[i].c \notin Whitespace
    THEN Insert(st, <<NL>>, NoTags) ELSE st

Write(st, args, tags) ==
    PromptMove(WriteNewline(WriteHighlight(
        WriteArgs([st EXCEPT !.obs.args = args], args, tags, Len(args)),
        Len(st.log) + 1)))

----------------------------------------------------------------------------
(* The namespace: util.vdict around a store, with Console.setitem and      *)
(* Console.delitem as its callbacks, and the host's two registries         *)

Names == {"x"}
ModuleValues == {"m"}
ObjectValues == {"1", "2"}
Values == ModuleValues \cup ObjectValues

(* inspect.ismodule *)
ismodule(v) == v \in ModuleValues

Put(d, k, v) == [n \in DOMAIN d \cup {k} |-> IF n = k THEN v ELSE d[n]]
Del(d, k) == [n \in DOMAIN d \ {k} |-> d[n]]
(* dict.update *)
Update(d, e) == [n \in DOMAIN d \cup DOMAIN e |-> IF n \in DOMAIN e THEN e[n] ELSE d[n]]

Raise(st, e) == [st EXCEPT !.obs.exc = e]

setitem(st, key, value) ==
    IF ismodule(value)
    THEN [st EXCEPT !.modules = Put(@, key, value)]
    ELSE [st EXCEPT !.objects = Put(@, key, value)]

delitem(st, key, value) ==
    IF ismodule(value)
    THEN (IF key \in DOMAIN st.modules
          THEN [st EXCEPT !.modules = Del(@, key)] ELSE Raise(st, "KeyError"))
    ELSE (IF key \in DOMAIN st.objects
          THEN [st EXCEPT !.objects = Del(@, key)] ELSE Raise(st, "KeyError"))

(* vdict.__setitem__: the callback, then the store *)
VdictSet(st, key, value) ==
    [setitem(st, key, value) EXCEPT !.locals = Put(@, key, value)]

(* vdict.__delitem__: the callback with the stored value, then the store *)
StoreDel(st, key) ==
    IF st.obs.exc # "none" THEN st ELSE [st EXCEPT !.locals = Del(@, key)]

VdictDel(st, key) ==
    IF key \notin DOMAIN st.locals THEN Raise(st, "NameError")
    ELSE StoreDel(delitem(st, key, st.locals[key]), key)

synclocals(st) ==
    [st EXCEPT !.locals = Update(Update(@, st.objects), st.modules)]

(* for the record: the keys the host took out of both registries between  *)
(* the synclocals before this one and this one                             *)
Synced(st) ==
    [st EXCEPT !.obs.gone = st.obs.removed \ (DOMAIN st.objects \cup DOMAIN st.modules),
               !.obs.removed = {}]

(* for the record: the namespace and the registries when source is run *)
Ran(st) ==
    [st EXCEPT !.obs.ran = Append(@, [locals |-> st.locals, objects |-> st.objects,
                                      modules |-> st.modules, gone |-> st.obs.gone])]

----------------------------------------------------------------------------
(* Console.__init__, lines 60-62: the hooks it installs.  sys.stdout and   *)
(* sys.stderr are not assigned.                                            *)

(* the mutant: sys.displayhook is left as it was *)
ConsoleHooksNoDisplayhook ==
    [displayhook |-> "orig", excepthook |-> "console",
     print |-> "console", stdout |-> "orig", stderr |-> "orig"]

ConsoleHooks == [displayhook |-> "console", excepthook |-> "console",
                 print |-> "console", stdout |-> "orig", stderr |-> "orig"]

Event(st, kind, dest, text) ==
    [st EXCEPT !.obs.events = Append(@, [kind |-> kind, dest |-> dest, text |-> text])]

(* sys.displayhook(value) *)
Display(st, value) ==
    IF st.sys.displayhook = "console"
    THEN Write(Event(st, "display", "console", value.text), <<value>>, NoTags)
    ELSE IF value.kind = "none" THEN st
    ELSE Event(st, "display", st.sys.stdout, value.text)

(* the print of builtins, with its arguments *)
PrintCall(st, args) ==
    IF st.sys.print = "console"
    THEN Write(Event(st, "print", "console", Concat([i \in 1..Len(args) |-> args[i].text])),
               args, NoTags)
    ELSE Event(st, "print", st.sys.stdout, Concat([i \in 1..Len(args) |-> args[i].text]))

----------------------------------------------------------------------------
(* Console.showtraceback and the text traceback.format_exception gives *)

INPUT == <<"<", "i", ">">>
SCRIPT == <<"f">>
CODEOP == <<"c">>

(* an exception raised by the code being run: its frame is in filename *)
RuntimeTrace(e, filename) ==
    <<TB, NL, FILE, Q>> \o filename \o <<Q, LN, INTOK, "m", NL, e, NL>>

(* a SyntaxError raised by the compiler: the frames are codeop's *)
SyntaxTrace(filename) ==
    <<TB, NL, FILE, Q>> \o CODEOP \o <<Q, LN, INTOK, "c", NL,
      FILE, Q>> \o filename \o <<Q, LN, NL, "SyntaxError", NL>>

SetView(st) == [st EXCEPT !.obs.view = TRUE]

showtraceback(st, lines) ==
    SetView(BuiltinPrint(Write(Event(st, "except", "console", lines),
                               <<Str(RStrip(lines))>>, RedStr), BEL))

(* traceback.format_exception_only for a SyntaxError *)
SyntaxOnly(filename) == <<FILE, Q>> \o filename \o <<Q, LN, NL, "SyntaxError", NL>>

(* InteractiveInterpreter.showsyntaxerror: sys.excepthook when one is set, *)
(* else self.write, which is Console.write                                 *)
showsyntaxerror(st, filename) ==
    IF st.sys.excepthook = "console"
    THEN showtraceback(st, SyntaxTrace(filename))
    ELSE Write(Event(st, "except", "console", SyntaxOnly(filename)),
               <<Str(SyntaxOnly(filename))>>, NoTags)

----------------------------------------------------------------------------
(* The statements of the modelled language.  On a right-hand side "1" and  *)
(* "2" are objects and "m" is a module.                                    *)

S_x1 == <<"x", "=", "1">>
S_x2 == <<"x", "=", "2">>
S_xm == <<"x", "=", "m">>
S_del == <<"d", "e", "l", " ", "x">>
S_x == <<"x">>
S_div == <<"1", "/", "0">>
S_print == <<"p", "r", "i", "n", "t", "(", "1", ")">>
S_clearcall == <<"c", "l", "e", "a", "r", "(", ")">>
S_clear == <<"c", "l", "e", "a", "r">>
S_plot == <<"p", "l", "o", "t", "(", ")">>
S_if == <<"i", "f", " ", "1", ":">>
S_bad == <<")">>

Stmts == {S_x1, S_x2, S_xm, S_del, S_x, S_div, S_print, S_clearcall, S_clear, S_plot}

(* repr(value) *)
Repr(v) == IF ismodule(v) THEN Str(<<"<", v, ">">>) ELSE Str(<<v>>)

(* one statement run in the namespace; an exception is left in obs.exc *)
ExecStmt(st, stmt) ==
    CASE stmt = S_x1 -> VdictSet(st, "x", "1")
      [] stmt = S_x2 -> VdictSet(st, "x", "2")
      [] stmt = S_xm -> VdictSet(st, "x", "m")
      [] stmt = S_del -> VdictDel(st, "x")
      [] stmt = S_x -> IF "x" \in DOMAIN st.locals
                       THEN Display(st, Repr(st.locals["x"]))
                       ELSE Raise(st, "NameError")
      [] stmt = S_div -> Raise(st, "ZeroDivisionError")
      [] stmt = S_print -> PrintCall(st, <<Str(<<"1">>)>>)
      [] stmt = S_clearcall -> Display(ClearCall(st), None)
      [] stmt = S_clear -> Display(st, ClearObj)
      [] stmt = S_plot -> Display(st, None)
      [] OTHER -> st

RECURSIVE ExecAll(_, _)
ExecAll(st, stmts) ==
    IF stmts = <<>> \/ st.obs.exc # "none" THEN st
    ELSE ExecAll(ExecStmt(st, Head(stmts)), Tail(stmts))

(* InteractiveInterpreter.runcode: exec, and showtraceback on an exception *)
Caught(st, filename) ==
    IF st.obs.exc = "none" THEN st
    ELSE showtraceback([st EXCEPT !.obs.exc = "none"], RuntimeTrace(st.obs.exc, filename))

runcode(st, stmts, filename) == Caught(ExecAll(st, stmts), filename)

(* codeop's compile of a source in "single" mode: "syntax", "more"         *)
(* (incomplete) or "ok" with the statements to run.  A block is complete   *)
(* once it has a body and the source ends with a newline.                  *)
Indented(l) == l # <<>> /\ l[1] = " " /\ Tail(l) \in Stmts

CompileLines(lines, n, rest) ==
    IF \A i \in 1..n : lines[i] = <<>> THEN [status |-> "ok", stmts |-> <<>>]
    ELSE IF lines[1] = S_if
         THEN IF \E i \in rest : ~Indented(lines[i])
              THEN [status |-> "syntax", stmts |-> <<>>]
              ELSE IF rest # {} /\ lines[n] = <<>>
                   THEN [status |-> "ok",
                         stmts |-> Concat([i \in 1..n |->
                                      IF i \in rest THEN <<Tail(lines[i])>> ELSE <<>>])]
                   ELSE IF rest = {} /\ n > 1
                        THEN [status |-> "syntax", stmts |-> <<>>]
                        ELSE [status |-> "more", stmts |-> <<>>]
         ELSE IF lines[1] \in Stmts /\ rest = {}
              THEN [status |-> "ok", stmts |-> <<lines[1]>>]
              ELSE [status |-> "syntax", stmts |-> <<>>]

NonBlank(lines) == {i \in 2..Len(lines) : lines[i] # <<>>}

CompileSplit(lines) == CompileLines(lines, Len(lines), NonBlank(lines))

Compile(source) == CompileSplit(SplitNL(source))

(* InteractiveInterpreter.runsource: TRUE when more input is required *)
RunsMore(source) == Compile(source).status = "more"

(* for the record: a call of runsource *)
Run(st, source, filename, status) ==
    [st EXCEPT !.obs.runs = Append(@, [source |-> source, filename |-> filename,
                                       status |-> status])]

RunCompiled(st, c, filename) ==
    CASE c.status = "syntax" -> showsyntaxerror(st, filename)
      [] c.status = "more" -> st
      [] OTHER -> runcode(st, c.stmts, filename)

RunSourceAs(st, source, filename, c) ==
    RunCompiled(Ran(Run(st, source, filename, c.status)), c, filename)

runsource(st, source, filename) == RunSourceAs(st, source, filename, Compile(source))

----------------------------------------------------------------------------
(* Console.eval, Console.push, Console.runscript *)

(* CodeParser.preprocess and CodeParser.__call__ are calls push makes      *)
(* outside any try: perr says which of them, if any, raises                *)
ParserFails == {"none", "preprocess", "parse"}

Escapes(st, e) == [st EXCEPT !.obs.raised = e]

EvalIn(st, source) ==
    IF source = S_x /\ "x" \in DOMAIN st.locals
    THEN [st EXCEPT !.obs.result = <<st.locals["x"]>>]
    ELSE Escapes(st, "NameError")

eval(st, source) == EvalIn(Ran(Synced(synclocals(st))), source)

(* for the record: a call of push, and the buffer and history it found *)
Pushed(st, s, filename) ==
    [st EXCEPT !.obs.pushes = Append(@, [s |-> s, filename |-> filename,
                                         buffer |-> st.buffer, history |-> st.history])]

(* the end of push, after runsource *)
PushEnd(st, s, did_compile, perr) ==
    IF did_compile
    THEN PromptCall([st EXCEPT !.buffer = Append(@, s \o <<NL>>)])
    ELSE IF perr = "parse" THEN Escapes(st, "parser")
         ELSE PromptCall([st EXCEPT !.history = @ \o s, !.buffer = <<>>])

PlotPrompt(st, source) ==
    IF Prefix(source, 4) = Prefix(S_plot, 4) THEN PromptCall(st) ELSE st

PushSource(st, s, source, filename, perr) ==
    IF perr = "preprocess" THEN Escapes(st, "parser")
    ELSE PushEnd(runsource(PlotPrompt(st, source), source, filename),
                 s, RunsMore(source), perr)

push(st, s, filename, perr) ==
    PushSource(Pushed(Synced(synclocals(st)), s, filename),
               s, Concat(st.buffer \o <<s>>), filename, perr)

(* the pushes of runscript in order; failAt is the push whose parser call  *)
(* raises (0: none), which ends the loop                                   *)
RECURSIVE PushAll(_, _, _, _, _)
PushAll(st, ss, k, failAt, perr) ==
    IF ss = <<>> \/ st.obs.raised # "none" THEN st
    ELSE PushAll(push(st, Head(ss).s, Head(ss).filename,
                      IF k = failAt THEN perr ELSE "none"),
                 Tail(ss), k + 1, failAt, perr)

ScriptPushes(lines, filename) ==
    [i \in 1..Len(lines) |-> [s |-> lines[i] \o <<NL>>, filename |-> INPUT]]
    \o <<[s |-> <<NL>>, filename |-> filename]>>

runscript(st, source, filename, failAt, perr) ==
    PushAll([st EXCEPT !.obs.script = source], ScriptPushes(SplitNL(source), filename), 1, failAt, perr)

----------------------------------------------------------------------------
(* The error_file link: Text sets hover_range on <Motion> over a tagged    *)
(* range and resets it on <Leave>; Console._click opens the editor         *)

(* the range of the tag around position i *)
TagLo(lg, tag, i) ==
    CHOOSE a \in 1..i : (\A k \in a..i : tag \in lg[k].tags)
                        /\ (a = 1 \/ tag \notin lg[a - 1].tags)
TagHi(lg, tag, i) ==
    CHOOSE b \in i..Len(lg) : (\A k \in i..b : tag \in lg[k].tags)
                              /\ (b = Len(lg) \/ tag \notin lg[b + 1].tags)

motion(st, tag, i) ==
    [st EXCEPT !.hover_range = <<TagLo(st.log, tag, i), TagHi(st.log, tag, i)>>]

leave(st) == [st EXCEPT !.hover_range = <<>>]

(* Text.get(first, last), within what the log holds *)
Get(st, range) ==
    SubSeq(LogText(st.log), range[1], Min(range[2], Len(st.log)))

(* os.path.abspath: a relative path is taken from the working directory *)
CWD == <<"/", "w", "/">>
Abspath(path) == IF path # <<>> /\ path[1] = "/" THEN path ELSE CWD \o path

(* content[1:-1] *)
Inner(content) == SubSeq(content, 2, Len(content) - 1)

click(st, tag) ==
    IF st.hover_range = <<>> THEN st
    ELSE IF tag = "error_file"
         THEN [st EXCEPT !.obs.opened = Append(@, Abspath(Inner(Get(st, st.hover_range))))]
         ELSE st

(* the "Clear Log" command of _on_button_right: the name clear, which is   *)
(* the Clear object __init__ put in builtins                               *)
ClearLogCommand(st) == ClearCall(st)

----------------------------------------------------------------------------
(* The state after Console.__init__ *)

Init ==
    /\ locals = <<>>
    /\ objects = <<>>
    /\ modules = <<>>
    /\ buffer = <<>>
    /\ history = <<>>
    /\ log = <<>>
    /\ is_on_bottom = FALSE
    /\ hover_range = <<>>
    /\ sys = ConsoleHooks
    /\ obs = NoObs

(* a handler that makes the log longer runs while the log is short of the *)
(* bound of the model                                                     *)
DoPrint(st) ==
    /\ Len(log) < MaxLog \/ Len(st.log) <= Len(log)
    /\ Becomes(st)

(* and one that may add to the history or the buffer too runs while they  *)
(* are short of their bounds                                              *)
Do(st) ==
    /\ Len(history) < MaxHistory
    /\ Len(buffer) < MaxBuffer
    /\ DoPrint(st)

(* the user enters a line at the prompt *)
Push(lines) ==
    \E s \in lines, perr \in ParserFails :
        Do(push(Begin(Cur, "push"), s, INPUT, perr))

RunScript(sources) ==
    \E source \in sources, failAt \in 0..3, perr \in ParserFails \ {"none"} :
        Do(runscript(Begin(Cur, "runscript"), source, SCRIPT, failAt, perr))

Eval ==
    Becomes(eval(Begin(Cur, "eval"), S_x))

(* code of the host calls print *)
HostPrint(argset) ==
    \E n \in 1..MaxArgs : \E args \in [1..n -> argset] :
        DoPrint(PrintCall(Begin(Cur, "print"), args))

(* code of the host writes to sys.stdout or sys.stderr *)
HostStreamWrite ==
    \E stream \in {"stdout", "stderr"} :
        Becomes(Event(Begin(Cur, "streamwrite"), stream, sys[stream], <<"a">>))

(* the host writes its registries *)
HostPut ==
    \/ \E k \in Names, v \in ObjectValues :
          Becomes([Begin(Cur, "host") EXCEPT !.objects = Put(@, k, v), !.obs.host = TRUE])
    \/ \E k \in Names, v \in ModuleValues :
          Becomes([Begin(Cur, "host") EXCEPT !.modules = Put(@, k, v), !.obs.host = TRUE])

HostRemove ==
    \/ \E k \in DOMAIN objects :
          Becomes([Begin(Cur, "host") EXCEPT !.objects = Del(@, k), !.obs.host = TRUE,
                                        !.obs.removed = @ \cup {k}])
    \/ \E k \in DOMAIN modules :
          Becomes([Begin(Cur, "host") EXCEPT !.modules = Del(@, k), !.obs.host = TRUE,
                                        !.obs.removed = @ \cup {k}])

Motion ==
    \E i \in 1..Len(log) :
        /\ "error_file" \in log[i].tags
        /\ Becomes(motion(Begin(Cur, "motion"), "error_file", i))

Leave == Becomes(leave(Begin(Cur, "leave")))

Click == Becomes(click(Begin(Cur, "click"), "error_file"))

MenuClearLog == Becomes(ClearLogCommand(Begin(Cur, "menu")))

----------------------------------------------------------------------------
(* The namespace and the registries *)

NSLines == {S_x1, S_xm, S_del}

NextNS == Push(NSLines) \/ Eval \/ HostPut \/ HostRemove

SpecNS == Init /\ [][NextNS]_vars

(* The read-eval-print loop *)

PushLines == {S_x1, S_if, <<" ">> \o S_x1, <<>>, S_bad, S_div, S_plot}
Scripts == {S_x1, S_x1 \o <<NL>> \o S_div, S_bad}

Next == Push(PushLines) \/ RunScript(Scripts)

Spec == Init /\ [][Next]_vars

(* What is written to the log, and the links in it *)

LogArgs == {None, Str(<<"a">>), Exc(<<"e">>), Str(<<TB>>),
            Str(<<FILE, Q, "a", Q>>), Str(<<FILE, Q>> \o INPUT \o <<Q>>)}

NextLog == HostPrint(LogArgs) \/ Motion \/ Leave \/ Click

SpecLog == Init /\ [][NextLog]_vars

(* Where output goes *)

IOLines == {S_x1, S_x, S_div, S_bad, S_print}

NextIO == Push(IOLines) \/ HostPrint({Str(<<"a">>)}) \/ HostStreamWrite

SpecIO == Init /\ [][NextIO]_vars

(* Clearing the log *)

ClearLines == {S_clearcall, S_clear, S_div, S_plot}
ClearArgs == {None, Str(<<"a">>), Exc(<<"e">>)}

NextClear == Push(ClearLines) \/ HostPrint(ClearArgs) \/ MenuClearLog

SpecClear == Init /\ [][NextClear]_vars

----------------------------------------------------------------------------
(* The properties *)

Events == Range(obs.events)
Segs == Range(obs.segs)
LastRun == obs.runs[Len(obs.runs)]
LastPush == obs.pushes[Len(obs.pushes)]
NotNone(r) == r.kind # "none"

(* C1: with only assignments and deletions made through the console, a    *)
(* bound name is a key of app.modules exactly when its value is a module   *)
(* and a key of app.objects exactly when it is not.                        *)
C1_RegistriesMatchNamespace ==
    ~obs.host =>
        \A k \in DOMAIN locals :
            /\ k \in DOMAIN modules <=> ismodule(locals[k])
            /\ k \in DOMAIN objects <=> ~ismodule(locals[k])

(* C2: when push or eval runs source, every entry of app.modules is in the *)
(* namespace, every entry of app.objects whose key app.modules lacks is in *)
(* the namespace, and a key removed from both registries since the         *)
(* previous synchronization is not bound.                                  *)
C2_SyncedWhenRun ==
    \A i \in 1..Len(obs.ran) :
        /\ \A k \in DOMAIN obs.ran[i].modules :
              k \in DOMAIN obs.ran[i].locals /\ obs.ran[i].locals[k] = obs.ran[i].modules[k]
        /\ \A k \in DOMAIN obs.ran[i].objects \ DOMAIN obs.ran[i].modules :
              k \in DOMAIN obs.ran[i].locals /\ obs.ran[i].locals[k] = obs.ran[i].objects[k]
        /\ \A k \in obs.ran[i].gone : k \notin DOMAIN obs.ran[i].locals

C4_PushCatchesErrors ==
    obs.op = "push" =>
        /\ obs.raised = "none"
        /\ (\E e \in Events : e.kind = "except") =>
              /\ \E g \in Segs : IsTraceback(g.text) /\ "red" \in g.tags
              /\ buffer = <<>>
              /\ obs.prompts >= 1

(* C5: after a push the buffer is non-empty exactly when that push asked   *)
(* for more input, it then holds the pending lines in order, it is empty   *)
(* after a complete or failed source, and the source run is the buffered   *)
(* lines followed by s.                                                    *)
C5_BufferIsPendingInput ==
    obs.op = "push" =>
        /\ buffer # <<>> <=> (obs.runs # <<>> /\ LastRun.status = "more")
        /\ (obs.runs # <<>> /\ LastRun.status = "more") =>
              buffer = Append(LastPush.buffer, LastPush.s \o <<NL>>)
        /\ (obs.runs # <<>> /\ LastRun.status # "more") => buffer = <<>>
        /\ obs.runs # <<>> => LastRun.source = Concat(LastPush.buffer \o <<LastPush.s>>)

(* C6: a push that completes a command adds one entry to the history, and  *)
(* a push that needs more input leaves the history as it was.              *)
C6_HistoryOneEntryPerLine ==
    (obs.op = "push" /\ obs.raised = "none" /\ obs.runs # <<>>) =>
        IF LastRun.status = "more"
        THEN history = LastPush.history
        ELSE Len(history) = Len(LastPush.history) + 1

(* C7: in what write put in the log, the quoted path of every File "path"  *)
(* is tagged error_file, every File "<...>" is tagged purple and not       *)
(* error_file; a click opens the editor on the absolute path of the hover  *)
(* range without its quotes, and opens nothing without a hover range.      *)
C7_FileLinks ==
    /\ \A i \in 1..(Len(log) - 2) :
          (log[i].c = FILE /\ log[i + 1].c = Q) =>
              IF log[i + 2].c = "<"
              THEN \A k \in (i + 3)..(LineEnd(LogText(log), i + 2) - 1) :
                       (/\ log[k].c = ">" /\ log[k + 1].c = Q
                        /\ \A m \in (i + 3)..(k - 1) : ~(log[m].c = ">" /\ log[m + 1].c = Q))
                       => \A m \in (i + 2)..k : /\ "purple" \in log[m].tags
                                                /\ "error_file" \notin log[m].tags
              ELSE \A j \in (i + 2)..LineEnd(LogText(log), i + 2) :
                       (log[j].c = Q /\ \A m \in (i + 2)..(j - 1) : log[m].c # Q)
                       => \A m \in (i + 1)..j : "error_file" \in log[m].tags
    /\ obs.op = "click" =>
          IF hover_range = <<>> THEN obs.opened = <<>>
          ELSE obs.opened = <<Abspath(Inner(Get(Cur, hover_range)))>>

(* C8: runscript pushes the lines in order and then an empty line, every   *)
(* one under the given filename, and complete statements leave the buffer  *)
(* empty.                                                                  *)
C8_RunScriptPushes ==
    (obs.op = "runscript" /\ obs.raised = "none") =>
        /\ Len(obs.pushes) = Len(SplitNL(obs.script)) + 1
        /\ \A i \in 1..Len(SplitNL(obs.script)) :
              obs.pushes[i].s = SplitNL(obs.script)[i] \o <<NL>>
        /\ LastPush.s = <<NL>>
        /\ \A i \in 1..Len(obs.pushes) : obs.pushes[i].filename = SCRIPT
        /\ (\A i \in 1..Len(SplitNL(obs.script)) : SplitNL(obs.script)[i] \in Stmts)
              => buffer = <<>>

(* C9: write inserts the text of each argument that is not None, in order, *)
(* and an argument is red exactly when it is an Exception or its own text  *)
(* begins with the traceback header (print passes no tags).                *)
C9_RedPerArgument ==
    obs.op = "print" =>
        /\ Len(obs.segs) = Len(SelectSeq(obs.args, NotNone))
        /\ \A i \in 1..Len(obs.segs) :
              /\ obs.segs[i].text = SelectSeq(obs.args, NotNone)[i].text
              /\ "red" \in obs.segs[i].tags <=>
                     \/ SelectSeq(obs.args, NotNone)[i].kind = "exc"
                     \/ IsTraceback(SelectSeq(obs.args, NotNone)[i].text)

(* C10: after the user enters clear() or clear, and after the Clear Log    *)
(* command, the log holds no character that is not whitespace,             *)
(* is_on_bottom is false, the prompt has been shown, and the clear wrote   *)
(* no text to the log.                                                     *)
C10_ClearEmptiesLog ==
    (\/ obs.op = "menu"
     \/ obs.op = "push" /\ obs.runs # <<>> /\ LastRun.source \in {S_clearcall, S_clear}) =>
        /\ obs.clears # <<>>
        /\ \A i \in 1..Len(log) : log[i].c \in Whitespace
        /\ is_on_bottom = FALSE
        /\ obs.prompts >= 1
        /\ obs.wrote = <<>>

C10_Witness ==
    /\ obs.op = "push"
    /\ obs.runs # <<>>
    /\ LastRun.source = S_clear
    /\ obs.clears # <<>>
    /\ obs.clears[1].len > 0
    /\ obs.clears[1].bottom
====
